---- MODULE Spec2Model ----
(***************************************************************************)
(* Model of src/image.rs (inlyne): one Image instance, the background     *)
(* thread spawned by Image::from_url and the owner thread that calls the   *)
(* instance's methods.  Every lock acquisition, release and blocking wait  *)
(* is a step of its own, so that all interleavings of the two threads are  *)
(* explored.                                                               *)
(***************************************************************************)
EXTENDS Integers, Sequences, FiniteSets, TLC

\* ------------------------------------------------------------------ bounds
\* Decoded images have native width and height in 1..MaxDim.
MaxDim == 2
\* Event-loop proxies that add_callback may register: 1..MaxProxy.
MaxProxy == 1
\* create_bind_group uploads explored per instance (caps the bind-group ids).
MaxUploads == 2

\* Option<T>: None is the empty sequence, Some(x) the one-element sequence.
None == <<>>
Some(x) == <<x>>

\* An RgbaImage is identified by its native dimensions <<width, height>>.
Images == (1..MaxDim) \X (1..MaxDim)
Proxies == 1..MaxProxy
Aligns == {"Center"}
\* ImageSize values given to with_size.
ImageSizes == {<<"PxWidth", 1, 0>>, <<"PxHeight", 1, 0>>, <<"FullSize", 2, 1>>}
\* renderer::DEFAULT_MARGIN, the document margin in pixels.
DEFAULT_MARGIN == 20
\* hidpi_scale arguments of dimensions, <<m, e>> for m * 2^e: 1.0 and 2.0.
HidpiScales == {<<1, 0>>, <<1, 1>>}
\* screen_size arguments of dimensions: one pixel between the margins, so
\* that a target two pixels wide is clamped and one a pixel wide is not.
ScreenSizes == {<<2 * DEFAULT_MARGIN + 1, 1>>}

\* ------------------------------------------------------- f32 arithmetic
\* The sizing code computes in f32 and casts back with `as u32`.  A value is
\* [k |-> "fin", s |-> sign, m |-> mantissa, e |-> exponent] = s * m * 2^e
\* with 0 <= m < 2^24 (m is kept odd or 0), or an infinity (k = "inf") or a
\* NaN (k = "nan").  Every operation rounds to nearest, ties to even, as the
\* hardware does.
RECURSIVE Pow2(_)
Pow2(n) == IF n = 0 THEN 1 ELSE 2 * Pow2(n - 1)

Mantissa == Pow2(24)

NaN == [k |-> "nan", s |-> 1, m |-> 0, e |-> 0]
Inf(sign) == [k |-> "inf", s |-> sign, m |-> 0, e |-> 0]

\* Strip the mantissa's trailing zero bits.
RECURSIVE Norm(_, _, _)
Norm(sign, m, e) ==
    IF m = 0 THEN [k |-> "fin", s |-> sign, m |-> 0, e |-> 0]
    ELSE IF m % 2 = 0 THEN Norm(sign, m \div 2, e + 1)
    ELSE [k |-> "fin", s |-> sign, m |-> m, e |-> e]

\* Round q * 2^e (plus, when sticky, a nonzero amount below q's last bit) to
\* 24 significant bits.
RECURSIVE Round(_, _, _, _)
Round(sign, q, e, sticky) ==
    IF q >= 2 * Mantissa
      THEN Round(sign, q \div 2, e + 1, sticky \/ q % 2 = 1)
    ELSE IF q >= Mantissa
      THEN LET m == q \div 2
               up == q % 2 = 1 /\ (sticky \/ m % 2 = 1)
           IN  Norm(sign, IF up THEN m + 1 ELSE m, e + 1)
    ELSE Norm(sign, q, e)

\* `n as f32` for an integer of magnitude below 2^24 (exact).
F32(n) == IF n < 0 THEN Norm(-1, -n, 0) ELSE Norm(1, n, 0)

\* a * b
Mul(a, b) ==
    IF a.k = "nan" \/ b.k = "nan" THEN NaN
    ELSE IF a.k = "inf" \/ b.k = "inf"
      THEN IF (a.k = "fin" /\ a.m = 0) \/ (b.k = "fin" /\ b.m = 0)
             THEN NaN ELSE Inf(a.s * b.s)
    ELSE Round(a.s * b.s, a.m * b.m, a.e + b.e, FALSE)

\* Long division: q is the quotient so far, r the remainder (r < d).
RECURSIVE Quotient(_, _, _, _, _)
Quotient(sign, q, r, d, e) ==
    IF r = 0 THEN Round(sign, q, e, FALSE)
    ELSE IF q >= Mantissa THEN Round(sign, q, e, TRUE)
    ELSE Quotient(sign, 2 * q + (IF 2 * r >= d THEN 1 ELSE 0),
                  (2 * r) % d, d, e - 1)

\* a / b
Div(a, b) ==
    IF a.k = "nan" \/ b.k = "nan" THEN NaN
    ELSE IF a.k = "inf" THEN IF b.k = "inf" THEN NaN ELSE Inf(a.s * b.s)
    ELSE IF b.k = "inf" THEN Norm(a.s * b.s, 0, 0)
    ELSE IF b.m = 0 THEN IF a.m = 0 THEN NaN ELSE Inf(a.s * b.s)
    ELSE Quotient(a.s * b.s, a.m \div b.m, a.m % b.m, b.m, a.e - b.e)

\* a > b (false when either is a NaN)
Gt(a, b) ==
    IF a.k = "nan" \/ b.k = "nan" THEN FALSE
    ELSE IF a.k = "inf" THEN a.s = 1 /\ ~(b.k = "inf" /\ b.s = 1)
    ELSE IF b.k = "inf" THEN b.s = -1
    ELSE LET lo == IF a.e < b.e THEN a.e ELSE b.e
         IN  a.s * a.m * Pow2(a.e - lo) > b.s * b.m * Pow2(b.e - lo)

\* -a
Neg(a) == [a EXCEPT !.s = -a.s]

\* a + b
Add(a, b) ==
    IF a.k = "nan" \/ b.k = "nan" THEN NaN
    ELSE IF a.k = "inf"
      THEN IF b.k = "inf" /\ b.s # a.s THEN NaN ELSE a
    ELSE IF b.k = "inf" THEN b
    ELSE LET lo == IF a.e < b.e THEN a.e ELSE b.e
             sum == a.s * a.m * Pow2(a.e - lo) + b.s * b.m * Pow2(b.e - lo)
         IN  IF sum < 0 THEN Round(-1, -sum, lo, FALSE)
                        ELSE Round(1, sum, lo, FALSE)

\* a - b
Sub(a, b) == Add(a, Neg(b))

\* a == b (false when either is a NaN; the two zeros are equal)
Eq(a, b) == a.k # "nan" /\ b.k # "nan" /\ ~Gt(a, b) /\ ~Gt(b, a)

\* A cast that does not send NaN to 0.
AsU32_nan_nonzero(a) ==
    CASE a.k = "nan" -> 1
      [] a.k = "inf" /\ a.s = -1 -> 0
      [] a.k = "fin" /\ a.s = -1 -> 0
      [] a.k = "fin" /\ a.s = 1 /\ a.e >= 0 -> a.m * Pow2(a.e)
      [] a.k = "fin" /\ a.s = 1 /\ a.e < 0 /\ a.e > -31 -> a.m \div Pow2(-a.e)
      [] a.k = "fin" /\ a.s = 1 /\ a.e <= -31 -> 0

\* `a as u32`: truncation toward zero; NaN and negative values give 0.
\* (+inf gives u32::MAX, which is beyond TLC's integers: no arm is given for
\* it, so that a run that casts an infinity stops with an error.)
AsU32(a) ==
    CASE a.k = "nan" -> 0
      [] a.k = "inf" /\ a.s = -1 -> 0
      [] a.k = "fin" /\ a.s = -1 -> 0
      [] a.k = "fin" /\ a.s = 1 /\ a.e >= 0 -> a.m * Pow2(a.e)
      [] a.k = "fin" /\ a.s = 1 /\ a.e < 0 /\ a.e > -31 -> a.m \div Pow2(-a.e)
      [] a.k = "fin" /\ a.s = 1 /\ a.e <= -31 -> 0

VARIABLES
    image,          \* Image.image: Option<RgbaImage> behind the pixel mutex
    imageLock,      \* holder of the pixel mutex: "free", "task" or "owner"
    callback,       \* Image.callback: Option<EventLoopProxy> behind its mutex
    callbackLock,   \* holder of the listener mutex
    callbackPoisoned, \* the listener mutex was poisoned by a panicking holder
    is_aligned,     \* Image.is_aligned
    size,           \* Image.size
    bind_group,     \* Image.bind_group: Option of the stored upload
    taskPc,         \* position of the background thread
    taskDecoded,    \* the thread's local: the decoded image, if any
    ownerPc,        \* position of the owner thread inside a method
    ownerArg,       \* the owner's locals (argument / dimensions snapshot)
    ret,            \* result of the owner's last buffer_dimensions / dimensions
    sent,           \* proxies on which send_event(Reposition) was called
    uploads,        \* number of write_texture uploads performed so far
    addReturned,    \* add_callback has returned at least once
    trace           \* what happened in the background thread so far

vars == <<image, imageLock, callback, callbackLock, callbackPoisoned,
          is_aligned, size, bind_group, taskPc, taskDecoded, ownerPc,
          ownerArg, ret, sent, uploads, addReturned, trace>>

imageVars == <<image, imageLock>>
callbackVars == <<callback, callbackLock, callbackPoisoned>>
fieldVars == <<is_aligned, size, bind_group, uploads>>
taskVars == <<taskPc, taskDecoded, sent, trace>>
ownerVars == <<ownerPc, ownerArg, ret, addReturned>>

\* What the background thread has done, for stating the claims:
\*   localFailed    a step of reading the local file failed
\*   fetched        reqwest::blocking::get was attempted
\*   bytes          bytes were retrieved (from the file or the network)
\*   decode         "pending", "ok" or "err": result of load_from_memory
\*   regAtDecode    add_callback had returned when load_from_memory returned
\*   probe          "pending", then "contended" when try_lock ran while an
\*                  add_callback call held the listener lock, else "free"
\*   panic          "none" or the call whose unwrap() panicked
trace0 == [localFailed |-> FALSE, fetched |-> FALSE, bytes |-> FALSE,
           decode |-> "pending", regAtDecode |-> FALSE, probe |-> "pending",
           panic |-> "none"]

ret0 == [op |-> "none", val |-> <<0, 0>>]

\* from_url, lines 96-129: both cells are created empty, the thread is
\* spawned and the instance is returned with no alignment, size or bind group.
Init ==
    /\ image = None
    /\ imageLock = "free"
    /\ callback = None
    /\ callbackLock = "free"
    /\ callbackPoisoned = FALSE
    /\ is_aligned = None
    /\ size = None
    /\ bind_group = None
    /\ taskPc = "open"
    /\ taskDecoded = None
    /\ ownerPc = "idle"
    /\ ownerArg = <<0, 0>>
    /\ ret = ret0
    /\ sent = <<>>
    /\ uploads = 0
    /\ addReturned = FALSE
    /\ trace = trace0

\* ------------------------------------------------ the background thread
\* line 102: File::open(url)
task_open ==
    /\ taskPc = "open"
    /\ \E ok \in BOOLEAN :
        IF ok THEN /\ taskPc' = "metadata"
                   /\ trace' = trace
              ELSE /\ taskPc' = "fetch"
                   /\ trace' = [trace EXCEPT !.localFailed = TRUE]
    /\ UNCHANGED <<imageVars, callbackVars, fieldVars, ownerVars, taskDecoded, sent>>

\* line 103: std::fs::metadata(url).unwrap()
task_metadata ==
    /\ taskPc = "metadata"
    /\ \E ok \in BOOLEAN :
        IF ok THEN /\ taskPc' = "read"
                   /\ trace' = trace
              ELSE /\ taskPc' = "panicked"
                   /\ trace' = [trace EXCEPT !.localFailed = TRUE, !.panic = "metadata"]
    /\ UNCHANGED <<imageVars, callbackVars, fieldVars, ownerVars, taskDecoded, sent>>

\* Mutant of task_read: the pixel lock is taken before the bytes are decoded.
task_read_locked ==
    /\ taskPc = "read"
    /\ imageLock = "free"
    /\ imageLock' = "task"
    /\ taskPc' = "decode"
    /\ trace' = [trace EXCEPT !.bytes = TRUE]
    /\ UNCHANGED <<image, callbackVars, fieldVars, ownerVars, taskDecoded, sent>>

\* line 105: img_file.read_to_end(&mut img_buf).unwrap()
task_read ==
    /\ taskPc = "read"
    /\ \E ok \in BOOLEAN :
        IF ok THEN /\ taskPc' = "decode"
                   /\ trace' = [trace EXCEPT !.bytes = TRUE]
              ELSE /\ taskPc' = "panicked"
                   /\ trace' = [trace EXCEPT !.localFailed = TRUE, !.panic = "read_to_end"]
    /\ UNCHANGED <<imageVars, callbackVars, fieldVars, ownerVars, taskDecoded, sent>>

\* lines 107-112: reqwest::blocking::get(url).map(bytes), else return
task_fetch ==
    /\ taskPc = "fetch"
    /\ \E ok \in BOOLEAN :
        IF ok THEN /\ taskPc' = "decode"
                   /\ trace' = [trace EXCEPT !.fetched = TRUE, !.bytes = TRUE]
              ELSE /\ taskPc' = "done"
                   /\ trace' = [trace EXCEPT !.fetched = TRUE]
    /\ UNCHANGED <<imageVars, callbackVars, fieldVars, ownerVars, taskDecoded, sent>>

\* lines 114-115: image::load_from_memory and, on Ok, image.to_rgba8() (the
\* assigned value is evaluated before the assignee's lock()).  On Err the
\* `if let` body is skipped and control falls through to line 117.
task_decode ==
    /\ taskPc = "decode"
    /\ \/ \E img \in Images :
            /\ taskDecoded' = Some(img)
            /\ taskPc' = "lock_image"
            /\ trace' = [trace EXCEPT !.decode = "ok", !.regAtDecode = addReturned]
       \/ /\ taskDecoded' = None
          /\ taskPc' = "probe"
          /\ trace' = [trace EXCEPT !.decode = "err", !.regAtDecode = addReturned]
    /\ UNCHANGED <<imageVars, callbackVars, fieldVars, ownerVars, sent>>

\* line 115: image_clone.lock().unwrap() (blocks while the owner holds it)
task_lock_image ==
    /\ taskPc = "lock_image"
    /\ imageLock = "free"
    /\ imageLock' = "task"
    /\ taskPc' = "store"
    /\ UNCHANGED <<image, callbackVars, fieldVars, ownerVars, taskDecoded, sent, trace>>

\* line 115: *guard = Some(image.to_rgba8())
task_store ==
    /\ taskPc = "store"
    /\ image' = taskDecoded
    /\ taskPc' = "unlock_image"
    /\ UNCHANGED <<imageLock, callbackVars, fieldVars, ownerVars, taskDecoded, sent, trace>>

\* Mutant of task_unlock_image: the guard on the pixel mutex is kept.
task_unlock_image_kept ==
    /\ taskPc = "unlock_image"
    /\ taskPc' = "probe"
    /\ UNCHANGED <<imageVars, callbackVars, fieldVars, ownerVars, taskDecoded, sent, trace>>

\* line 115: the temporary guard is dropped at the end of the statement
task_unlock_image ==
    /\ taskPc = "unlock_image"
    /\ imageLock' = "free"
    /\ taskPc' = "probe"
    /\ UNCHANGED <<image, callbackVars, fieldVars, ownerVars, taskDecoded, sent, trace>>

\* line 117: if let Ok(Some(callback)) = callback_clone.try_lock().as_deref()
\* try_lock fails when the mutex is held or poisoned; with the lock taken and
\* no listener stored the guard is dropped at once.
task_probe ==
    /\ taskPc = "probe"
    /\ IF callbackLock = "free" /\ ~callbackPoisoned
         THEN /\ IF callback # None
                   THEN callbackLock' = "task" /\ taskPc' = "send"
                   ELSE callbackLock' = callbackLock /\ taskPc' = "done"
         ELSE /\ callbackLock' = callbackLock
              /\ taskPc' = "done"
    /\ trace' = [trace EXCEPT !.probe = IF ownerPc = "add_callback_locked"
                                            THEN "contended" ELSE "free"]
    /\ UNCHANGED <<imageVars, callback, callbackPoisoned, fieldVars, ownerVars,
                   taskDecoded, sent>>

\* line 118: callback.send_event(InlyneEvent::Reposition).unwrap()
\* `sent` records the call.  send_event fails when the event loop is closed;
\* the unwrap then panics while the guard is alive, which poisons the
\* listener mutex.
task_send ==
    /\ taskPc = "send"
    /\ sent' = Append(sent, callback[1])
    /\ \/ /\ taskPc' = "release_callback"
          /\ UNCHANGED <<callbackLock, callbackPoisoned, trace>>
       \/ /\ taskPc' = "panicked"
          /\ callbackLock' = "free"
          /\ callbackPoisoned' = TRUE
          /\ trace' = [trace EXCEPT !.panic = "send_event"]
    /\ UNCHANGED <<imageVars, callback, fieldVars, ownerVars, taskDecoded>>

\* line 119: the guard of line 117 is dropped at the end of the `if let`
task_release_callback ==
    /\ taskPc = "release_callback"
    /\ callbackLock' = "free"
    /\ taskPc' = "done"
    /\ UNCHANGED <<imageVars, callback, callbackPoisoned, fieldVars, ownerVars,
                   taskDecoded, sent, trace>>

Task ==
    \/ task_open \/ task_metadata \/ task_read \/ task_fetch \/ task_decode
    \/ task_lock_image \/ task_store \/ task_unlock_image
    \/ task_probe \/ task_send \/ task_release_callback

\* ---------------------------------------------------- the owner thread
\* The owner's methods take &self / &mut self, so they run one at a time;
\* the guard returned by get_image_data borrows the instance mutably, so no
\* other method runs while it is alive.

\* buffer_dimensions, lines 159-165: try_lock never waits; a held mutex or an
\* empty cell gives (0, 0).  (No holder of the pixel mutex panics in this
\* file, so the mutex is never poisoned.)
\* Mutant of buffer_dimensions: the cell is read without regard to the lock.
buffer_dimensions_unlocked ==
    IF image # None THEN image[1] ELSE <<0, 0>>

buffer_dimensions ==
    IF imageLock = "free" /\ image # None THEN image[1] ELSE <<0, 0>>

buffer_dimensions_call ==
    /\ ownerPc = "idle"
    /\ ret' = [op |-> "buffer_dimensions", val |-> buffer_dimensions]
    /\ UNCHANGED <<imageVars, callbackVars, fieldVars, taskVars, ownerPc, ownerArg,
                   addReturned>>

\* dimensions_from_image_size, lines 143-157, on the dimensions it read.
dimensions_from_image_size(image_size, image_dimensions) ==
    CASE image_size[1] = "PxWidth" ->
           <<image_size[2],
             AsU32(Mul(Div(F32(image_size[2]), F32(image_dimensions[1])),
                       F32(image_dimensions[2])))>>
      [] image_size[1] = "PxHeight" ->
           <<AsU32(Mul(Div(F32(image_size[2]), F32(image_dimensions[2])),
                       F32(image_dimensions[1]))),
             image_size[2]>>
      [] image_size[1] = "FullSize" -> <<image_size[2], image_size[3]>>

\* dimensions with the clamped height taken from the target's ratio.
dimensions_target_ratio(snapshot, target, hidpi_scale, screen_size) ==
    LET hidpi == Norm(1, hidpi_scale[1], hidpi_scale[2])
        buffer_size == <<Mul(F32(snapshot[1]), hidpi), Mul(F32(snapshot[2]), hidpi)>>
        max_width == F32(screen_size[1] - 2 * DEFAULT_MARGIN)
    IN  IF target # None
          THEN LET target_dimensions ==
                       <<AsU32(Mul(F32(target[1][1]), hidpi)),
                         AsU32(Mul(F32(target[1][2]), hidpi))>>
               IN  IF target_dimensions[1] > AsU32(max_width)
                     THEN <<AsU32(max_width),
                            AsU32(Mul(Div(max_width, F32(target_dimensions[1])),
                                      F32(target_dimensions[2])))>>
                     ELSE target_dimensions
        ELSE IF Gt(Mul(buffer_size[1], hidpi), max_width)
          THEN <<AsU32(max_width),
                 AsU32(Mul(Div(max_width, buffer_size[1]), buffer_size[2]))>>
        ELSE <<AsU32(buffer_size[1]), AsU32(buffer_size[2])>>

\* dimensions, lines 166-198, on the values it read: `snapshot` is the result
\* of line 167's buffer_dimensions(), `target` is None when self.size is None
\* and else Some of what dimensions_from_image_size returned (line 176).
dimensions(snapshot, target, hidpi_scale, screen_size) ==
    LET hidpi == Norm(1, hidpi_scale[1], hidpi_scale[2])
        buffer_size == <<Mul(F32(snapshot[1]), hidpi), Mul(F32(snapshot[2]), hidpi)>>
        max_width == F32(screen_size[1] - 2 * DEFAULT_MARGIN)
        clamped == <<AsU32(max_width),
                     AsU32(Mul(Div(max_width, buffer_size[1]), buffer_size[2]))>>
    IN  IF target # None
          THEN LET target_dimensions ==
                       <<AsU32(Mul(F32(target[1][1]), hidpi)),
                         AsU32(Mul(F32(target[1][2]), hidpi))>>
               IN  IF target_dimensions[1] > AsU32(max_width)
                     THEN clamped ELSE target_dimensions
        ELSE IF Gt(Mul(buffer_size[1], hidpi), max_width)
          THEN clamped
        ELSE <<AsU32(buffer_size[1]), AsU32(buffer_size[2])>>

\* The divisors of the f32 divisions that one dimensions call evaluates:
\* line 148 or 152 in dimensions_from_image_size, then line 185 or 193 when
\* the clamp branch is taken.  No line tests a divisor before dividing.
divisors(snapshot, image_size, hidpi_scale, screen_size) ==
    LET hidpi == Norm(1, hidpi_scale[1], hidpi_scale[2])
        buffer_size == <<Mul(F32(snapshot[1]), hidpi), Mul(F32(snapshot[2]), hidpi)>>
        max_width == F32(screen_size[1] - 2 * DEFAULT_MARGIN)
    IN  IF image_size # None
          THEN LET target == dimensions_from_image_size(image_size[1], snapshot)
                   target_width == AsU32(Mul(F32(target[1]), hidpi))
               IN  (CASE image_size[1][1] = "PxWidth" -> {F32(snapshot[1])}
                      [] image_size[1][1] = "PxHeight" -> {F32(snapshot[2])}
                      [] image_size[1][1] = "FullSize" -> {})
                     \cup (IF target_width > AsU32(max_width)
                             THEN {buffer_size[1]} ELSE {})
        ELSE IF Gt(Mul(buffer_size[1], hidpi), max_width)
          THEN {buffer_size[1]} ELSE {}

\* dimensions, lines 167-176: the first buffer_dimensions() and, with no
\* size set, the whole computation.
dimensions_call ==
    /\ ownerPc = "idle"
    /\ \E hidpi_scale \in HidpiScales, screen_size \in ScreenSizes :
         IF size = None
           THEN /\ ret' = [op |-> "dimensions",
                           val |-> dimensions(buffer_dimensions, None,
                                              hidpi_scale, screen_size)]
                /\ UNCHANGED <<ownerPc, ownerArg>>
           ELSE /\ ownerArg' = buffer_dimensions \o hidpi_scale \o screen_size
                /\ ownerPc' = "dimensions_from_image_size"
                /\ UNCHANGED ret
    /\ UNCHANGED <<imageVars, callbackVars, fieldVars, taskVars, addReturned>>

\* lines 176-189: dimensions_from_image_size reads buffer_dimensions() again.
dimensions_return ==
    /\ ownerPc = "dimensions_from_image_size"
    /\ ret' = [op |-> "dimensions",
               val |-> dimensions(<<ownerArg[1], ownerArg[2]>>,
                          Some(dimensions_from_image_size(size[1], buffer_dimensions)),
                          <<ownerArg[3], ownerArg[4]>>,
                          <<ownerArg[5], ownerArg[6]>>)]
    /\ ownerPc' = "idle"
    /\ ownerArg' = <<0, 0>>
    /\ UNCHANGED <<imageVars, callbackVars, fieldVars, taskVars, addReturned>>

\* create_bind_group, lines 39-92: the texture extent and the data layout
\* come from line 37's `dimensions`, the pixel data from the locked cell.
upload(texture_size, image_data) ==
    [id |-> uploads + 1,
     width |-> texture_size[1],
     height |-> texture_size[2],
     bytes_per_row |-> 4 * texture_size[1],
     pixels |-> image_data]

\* line 37: let dimensions = self.buffer_dimensions()
create_bind_group_call ==
    /\ ownerPc = "idle"
    /\ uploads < MaxUploads
    /\ ownerArg' = buffer_dimensions
    /\ ownerPc' = "create_bind_group_wait"
    /\ UNCHANGED <<imageVars, callbackVars, fieldVars, taskVars, ret, addReturned>>

\* line 38: self.image.lock().unwrap() (blocks while the thread holds it)
create_bind_group_lock ==
    /\ ownerPc = "create_bind_group_wait"
    /\ imageLock = "free"
    /\ imageLock' = "owner"
    /\ ownerPc' = "create_bind_group_locked"
    /\ UNCHANGED <<image, callbackVars, fieldVars, taskVars, ownerArg, ret, addReturned>>

\* Mutant of create_bind_group_upload: the Option is not inspected and an
\* empty buffer is uploaded as a zero-sized image.
create_bind_group_upload_unchecked ==
    /\ ownerPc = "create_bind_group_locked"
    /\ bind_group' = Some(upload(ownerArg, IF image # None THEN image[1] ELSE <<0, 0>>))
    /\ uploads' = uploads + 1
    /\ imageLock' = "free"
    /\ ownerPc' = "idle"
    /\ ownerArg' = <<0, 0>>
    /\ UNCHANGED <<image, callbackVars, is_aligned, size, taskVars, ret, addReturned>>

\* Mutant of create_bind_group_upload: guard.take() instead of guard.as_ref()
\* moves the pixels out of the cell.
create_bind_group_upload_take ==
    /\ ownerPc = "create_bind_group_locked"
    /\ IF image # None
         THEN /\ bind_group' = Some(upload(ownerArg, image[1]))
              /\ uploads' = uploads + 1
         ELSE UNCHANGED <<bind_group, uploads>>
    /\ image' = None
    /\ imageLock' = "free"
    /\ ownerPc' = "idle"
    /\ ownerArg' = <<0, 0>>
    /\ UNCHANGED <<callbackVars, is_aligned, size, taskVars, ret, addReturned>>

\* lines 38-94: if let Some(image_data) = guard.as_ref() { upload; store the
\* bind group }; the guard is dropped at the end of the `if let`.
create_bind_group_upload ==
    /\ ownerPc = "create_bind_group_locked"
    /\ IF image # None
         THEN /\ bind_group' = Some(upload(ownerArg, image[1]))
              /\ uploads' = uploads + 1
         ELSE UNCHANGED <<bind_group, uploads>>
    /\ imageLock' = "free"
    /\ ownerPc' = "idle"
    /\ ownerArg' = <<0, 0>>
    /\ UNCHANGED <<image, callbackVars, is_aligned, size, taskVars, ret, addReturned>>

\* add_callback, lines 131-133: self.callback.lock() blocks while the
\* thread holds the listener mutex ...
add_callback_call ==
    /\ ownerPc = "idle"
    /\ \E proxy \in Proxies : ownerArg' = <<proxy, 0>>
    /\ ownerPc' = "add_callback_wait"
    /\ UNCHANGED <<imageVars, callbackVars, fieldVars, taskVars, ret, addReturned>>

\* ... and .unwrap() panics when the mutex is poisoned.
add_callback_lock ==
    /\ ownerPc = "add_callback_wait"
    /\ callbackLock = "free"
    /\ IF callbackPoisoned
         THEN /\ ownerPc' = "panicked"
              /\ UNCHANGED callbackLock
         ELSE /\ ownerPc' = "add_callback_locked"
              /\ callbackLock' = "owner"
    /\ UNCHANGED <<imageVars, callback, callbackPoisoned, fieldVars, taskVars,
                   ownerArg, ret, addReturned>>

\* Mutant of add_callback_store: the proxy is not written into the cell.
add_callback_store_dropped ==
    /\ ownerPc = "add_callback_locked"
    /\ callbackLock' = "free"
    /\ ownerPc' = "idle"
    /\ ownerArg' = <<0, 0>>
    /\ addReturned' = TRUE
    /\ UNCHANGED <<imageVars, callback, callbackPoisoned, fieldVars, taskVars, ret>>

\* line 132: *guard = Some(eventloop_proxy); the guard is dropped.
add_callback_store ==
    /\ ownerPc = "add_callback_locked"
    /\ callback' = Some(ownerArg[1])
    /\ callbackLock' = "free"
    /\ ownerPc' = "idle"
    /\ ownerArg' = <<0, 0>>
    /\ addReturned' = TRUE
    /\ UNCHANGED <<imageVars, callbackPoisoned, fieldVars, taskVars, ret>>

\* get_image_data, lines 200-202: a blocking lock whose guard is returned to
\* the caller, who holds it until it drops it.  What the caller does through
\* the guard is outside this file.
get_image_data_call ==
    /\ ownerPc = "idle"
    /\ ownerPc' = "get_image_data_wait"
    /\ UNCHANGED <<imageVars, callbackVars, fieldVars, taskVars, ownerArg, ret,
                   addReturned>>

get_image_data_lock ==
    /\ ownerPc = "get_image_data_wait"
    /\ imageLock = "free"
    /\ imageLock' = "owner"
    /\ ownerPc' = "get_image_data_held"
    /\ UNCHANGED <<image, callbackVars, fieldVars, taskVars, ownerArg, ret, addReturned>>

get_image_data_drop ==
    /\ ownerPc = "get_image_data_held"
    /\ imageLock' = "free"
    /\ ownerPc' = "idle"
    /\ UNCHANGED <<image, callbackVars, fieldVars, taskVars, ownerArg, ret, addReturned>>

\* with_align, lines 135-138
with_align ==
    /\ ownerPc = "idle"
    /\ \E align \in Aligns : is_aligned' = Some(align)
    /\ UNCHANGED <<imageVars, callbackVars, size, bind_group, uploads, taskVars,
                   ownerVars>>

\* with_size, lines 139-142
with_size ==
    /\ ownerPc = "idle"
    /\ \E s \in ImageSizes : size' = Some(s)
    /\ UNCHANGED <<imageVars, callbackVars, is_aligned, bind_group, uploads, taskVars,
                   ownerVars>>

Owner ==
    \/ buffer_dimensions_call
    \/ dimensions_call \/ dimensions_return
    \/ create_bind_group_call \/ create_bind_group_lock \/ create_bind_group_upload
    \/ add_callback_call \/ add_callback_lock \/ add_callback_store
    \/ get_image_data_call \/ get_image_data_lock \/ get_image_data_drop
    \/ with_align \/ with_size

Next == Task \/ Owner

Spec == Init /\ [][Next]_vars

\* ------------------------------------------------- geometry and renderer
\* point without the shift to `position`.
point_unshifted(x, y, position, dim, screen) ==
    LET scale_x == Div(dim[1], screen[1])
        scale_y == Div(dim[2], screen[2])
        new_x == Sub(Mul(x, scale_x), Sub(F32(1), scale_x))
        new_y == Add(Mul(y, scale_y), Sub(F32(1), scale_y))
    IN  <<new_x, new_y, F32(0)>>

\* point, lines 223-237; every argument is an f32.
point(x, y, position, dim, screen) ==
    LET scale_x == Div(dim[1], screen[1])
        scale_y == Div(dim[2], screen[2])
        shift_x == Mul(Div(position[1], screen[1]), F32(2))
        shift_y == Mul(Div(position[2], screen[2]), F32(2))
        new_x == Add(Sub(Mul(x, scale_x), Sub(F32(1), scale_x)), shift_x)
        new_y == Sub(Add(Mul(y, scale_y), Sub(F32(1), scale_y)), shift_y)
    IN  <<new_x, new_y, F32(0)>>

\* ImageRenderer::new, line 309: const INDICES
INDICES == <<0, 1, 2, 2, 3, 4>>

\* ImageRenderer::vertex_buf, lines 332-361: the four vertices.
vertex_buf(pos, dim, screen_size) ==
    << [pos |-> point(F32(-1), F32(1), pos, dim, screen_size), tex_coords |-> <<0, 0>>],
       [pos |-> point(F32(-1), F32(-1), pos, dim, screen_size), tex_coords |-> <<0, 1>>],
       [pos |-> point(F32(1), F32(-1), pos, dim, screen_size), tex_coords |-> <<1, 1>>],
       [pos |-> point(F32(1), F32(1), pos, dim, screen_size), tex_coords |-> <<1, 0>>] >>

\* ------------------------------------------- the sizing and geometry alone
\* A second specification applies dimensions and vertex_buf to inputs drawn
\* from wider sets, with the background thread finished (or failed) and no
\* call in progress: both buffer_dimensions() reads of dimensions then see
\* the same buffer.

\* Native widths and heights are 1..MaxNative.
MaxNative == 11
\* with_size arguments are 0..MaxTarget pixels.
MaxTarget == 13
\* Screens are up to MaxAvail pixels wider than the two margins.
MaxAvail == 13
\* Quad positions are 0..MaxPos, quad and screen sides up to MaxSide.
MaxPos == 3
MaxSide == 4

PureImages == ((1..MaxNative) \X (1..MaxNative)) \cup {<<100, 50>>}
PureSizes ==
    {<<"PxWidth", p, 0>> : p \in 0..MaxTarget}
      \cup {<<"PxHeight", p, 0>> : p \in 0..MaxTarget}
      \cup {<<"FullSize", p, 1>> : p \in 0..MaxTarget}
\* 1.0, 1.5 and 2.0
PureHidpiScales == {<<1, 0>>, <<3, -1>>, <<1, 1>>}
PureScreenSizes ==
    {<<sw, 600>> : sw \in ((2 * DEFAULT_MARGIN - 1)..(2 * DEFAULT_MARGIN + MaxAvail))
                           \cup {340, 800}}

InitDimensions ==
    /\ image \in {None} \cup {Some(img) : img \in PureImages}
    /\ taskDecoded = image
    /\ taskPc = "done"
    /\ trace = IF image = None
                 THEN [trace0 EXCEPT !.localFailed = TRUE, !.fetched = TRUE]
                 ELSE [trace0 EXCEPT !.bytes = TRUE, !.decode = "ok", !.probe = "free"]
    /\ size \in {None} \cup {Some(sz) : sz \in PureSizes}
    /\ \E hidpi_scale \in PureHidpiScales, screen_size \in PureScreenSizes :
         ownerArg = hidpi_scale \o screen_size
    /\ ownerPc = "dimensions"

InitVertexBuf ==
    /\ image = None
    /\ taskDecoded = None
    /\ taskPc = "done"
    /\ trace = [trace0 EXCEPT !.localFailed = TRUE, !.fetched = TRUE]
    /\ size = None
    /\ \E pos \in (0..MaxPos) \X (0..MaxPos), dim \in (0..MaxSide) \X (0..MaxSide),
          screen_size \in (1..MaxSide) \X (1..MaxSide) :
         ownerArg = pos \o dim \o screen_size
    /\ ownerPc = "vertex_buf"

InitPure ==
    /\ imageLock = "free"
    /\ callback = None
    /\ callbackLock = "free"
    /\ callbackPoisoned = FALSE
    /\ is_aligned = None
    /\ bind_group = None
    /\ ret = ret0
    /\ sent = <<>>
    /\ uploads = 0
    /\ addReturned = FALSE
    /\ (InitDimensions \/ InitVertexBuf)

\* dimensions, lines 166-198, as one call on a quiescent instance.
dimensions_apply ==
    /\ ownerPc = "dimensions"
    /\ ret' = [op |-> "dimensions",
               val |-> dimensions(buffer_dimensions,
                          IF size = None THEN None
                          ELSE Some(dimensions_from_image_size(size[1], buffer_dimensions)),
                          <<ownerArg[1], ownerArg[2]>>,
                          <<ownerArg[3], ownerArg[4]>>)]
    /\ ownerPc' = "idle"
    /\ UNCHANGED <<imageVars, callbackVars, fieldVars, taskVars, ownerArg, addReturned>>

\* ImageRenderer::vertex_buf on u32 positions and sizes converted to f32.
vertex_buf_apply ==
    /\ ownerPc = "vertex_buf"
    /\ ret' = [op |-> "vertex_buf",
               val |-> vertex_buf(<<F32(ownerArg[1]), F32(ownerArg[2])>>,
                                  <<F32(ownerArg[3]), F32(ownerArg[4])>>,
                                  <<F32(ownerArg[5]), F32(ownerArg[6])>>)]
    /\ ownerPc' = "idle"
    /\ UNCHANGED <<imageVars, callbackVars, fieldVars, taskVars, ownerArg, addReturned>>

NextPure == dimensions_apply \/ vertex_buf_apply

SpecPure == InitPure /\ [][NextPure]_vars

\* ------------------------------------------------------------- the claims
TaskEnded == taskPc \in {"done", "panicked"}

\* C1: on every failure path of the background thread (no bytes from the
\* file or the network, or bytes that fail to decode) no Reposition
\* notification is sent.
C1_NoNotificationOnFailure ==
    (~trace.bytes \/ trace.decode = "err") => Len(sent) = 0

\* C2 (as stated): when add_callback has returned before the decode completes
\* and the decode succeeds, the finished thread has sent exactly one
\* notification.
C2_ExactlyOneWhenRegistered ==
    (TaskEnded /\ trace.decode = "ok" /\ trace.regAtDecode) => Len(sent) = 1

\* C2 (amended): when add_callback has returned before the decode completes
\* and the decode succeeds, the finished thread has sent exactly one
\* notification provided no
\* add_callback call holds the listener lock when the thread probes it; when
\* one does, no notification is sent.
C2_ExactlyOneUnlessProbeContended ==
    (TaskEnded /\ trace.decode = "ok" /\ trace.regAtDecode) =>
        IF trace.probe = "contended"
          THEN Len(sent) = 0
          ELSE Len(sent) = 1

C2_Witness ==
    /\ taskPc = "done" /\ trace.decode = "ok" /\ trace.regAtDecode
    /\ trace.probe = "free" /\ Len(sent) = 1

\* C3: the texture extent and the row stride of every upload equal the
\* native dimensions of the pixel buffer uploaded by the same call.
C3_ExtentMatchesPixels ==
    bind_group # None =>
        /\ bind_group[1].width = bind_group[1].pixels[1]
        /\ bind_group[1].height = bind_group[1].pixels[2]
        /\ bind_group[1].bytes_per_row = 4 * bind_group[1].pixels[1]

\* C4: create_bind_group never uploads from an empty pixel buffer: a call
\* that finds the buffer empty under the lock leaves bind_group absent, a
\* present bind_group implies a populated buffer, and a call that finds the
\* buffer populated performs the upload.
C4_UploadOnlyWhenPopulated ==
    /\ [](bind_group # None => image # None)
    /\ [](image = None => uploads = 0)
    /\ [][create_bind_group_upload =>
            IF image = None
              THEN bind_group' = None /\ uploads' = uploads
              ELSE bind_group' # None /\ uploads' = uploads + 1]_vars

C4_Witness == bind_group # None /\ taskPc = "done" /\ uploads = 1

\* C5: once a bind group is stored no further call replaces it, and the
\* upload happens at most once per instance.
C5_UploadAtMostOnce ==
    [][bind_group # None => bind_group' = bind_group /\ uploads' = uploads]_vars

\* C6: the pixel buffer is empty after construction, is written only by the
\* background thread's store while that thread holds the buffer lock, and
\* once populated never changes under any owner-thread operation.
C6_WriteOnce ==
    /\ image = None
    /\ [][/\ image # None => image' = image
          /\ image' # image => task_store /\ imageLock = "task" /\ image = None]_vars

C6_Witness ==
    /\ image # None /\ uploads > 0 /\ callback # None /\ size # None
    /\ is_aligned # None /\ ret.op = "dimensions" /\ ret.val # <<0, 0>>

\* C7: buffer_dimensions never waits; it returns (0,0) when the buffer is
\* empty or the writer holds the lock and the native dimensions otherwise, so
\* a call before the thread's write returns (0,0) and a call after the write,
\* with the lock released, returns the decoder's dimensions.
C7_SnapshotDimensions ==
    /\ [](ownerPc = "idle" => ENABLED buffer_dimensions_call)
    /\ [][buffer_dimensions_call =>
            /\ ret'.val = IF image = None \/ imageLock = "task"
                            THEN <<0, 0>> ELSE image[1]
            /\ taskPc \in {"open", "metadata", "read", "fetch", "decode",
                           "lock_image", "store"} => ret'.val = <<0, 0>>
            /\ (taskDecoded # None /\ taskPc \in {"probe", "send",
                    "release_callback", "done", "panicked"})
                  => ret'.val = taskDecoded[1]]_vars

C7_Witness ==
    ret.op = "buffer_dimensions" /\ ret.val # <<0, 0>> /\ ret.val = image[1]

\* C8: whenever a notification has been sent, the decoded pixels are in the
\* buffer and the thread has released the buffer lock.
C8_SendAfterWrite ==
    Len(sent) > 0 => image # None /\ imageLock # "task"

\* C9: while the thread opens or reads the file, fetches or decodes it holds
\* neither lock, so an owner call waiting for a lock never waits for them.
TaskInIo == taskPc \in {"open", "metadata", "read", "fetch", "decode"}

C9_NoLockDuringIo ==
    /\ TaskInIo => imageLock # "task" /\ callbackLock # "task"
    /\ (ownerPc \in {"create_bind_group_wait", "get_image_data_wait"}
            /\ imageLock = "task") => ~TaskInIo
    /\ (ownerPc = "add_callback_wait" /\ callbackLock = "task") => ~TaskInIo

C9_Witness ==
    ownerPc = "create_bind_group_wait" /\ imageLock = "task"

\* C10: after a failure at any step of reading the local file the thread
\* attempts the remote fetch, and it never panics on a local I/O failure.
C10_LocalFailureFallsBack ==
    trace.localFailed =>
        /\ taskPc = "fetch" \/ trace.fetched
        /\ taskPc # "panicked"

\* ------------------------------------------------ claims on the sizing
\* The inputs of the dimensions call whose result is in `ret`.
Sized == ret.op = "dimensions" /\ image # None
NativeW == image[1][1]
NativeH == image[1][2]
\* twice the hidpi scale factor, an integer for 1.0, 1.5 and 2.0
Hidpi2 == ownerArg[1] * Pow2(ownerArg[2] + 1)
\* maxWidth = screenWidth - 2 * margin
MaxWidth == ownerArg[3] - 2 * DEFAULT_MARGIN

\* C11: with no size policy the result is clamped to maxWidth exactly when
\* nativeWidth * hidpi > maxWidth, and is otherwise the native size scaled
\* by hidpi, (nativeWidth * hidpi, nativeHeight * hidpi), whatever hidpi is.
C11_NativeScaledUnlessWider ==
    (Sized /\ size = None /\ MaxWidth >= 0) =>
        IF NativeW * Hidpi2 > 2 * MaxWidth
          THEN ret.val[1] = MaxWidth
          ELSE ret.val = <<(NativeW * Hidpi2) \div 2, (NativeH * Hidpi2) \div 2>>

\* The target of the call: dimensions_from_image_size applied to the policy.
Target == dimensions_from_image_size(size[1], image[1])

C13_PxWidthHeightRounded ==
    (Sized /\ size # None /\ size[1][1] = "PxWidth" /\ MaxWidth >= 0) =>
        /\ ret.val[1] <= MaxWidth
        /\ (size[1][2] * Hidpi2) \div 2 <= MaxWidth =>
             LET rounded == (2 * size[1][2] * NativeH + NativeW) \div (2 * NativeW)
             IN  ret.val[2] \in
                     { (rounded * Hidpi2) \div 2,
                       (rounded * Hidpi2 + 1) \div 2,
                       (2 * size[1][2] * NativeH * Hidpi2 + 2 * NativeW)
                           \div (4 * NativeW) }

\* A dimensions call on an empty pixel buffer (native size read as (0, 0)).
Unsized == ret.op = "dimensions" /\ image = None
\* The divisors the call evaluated.
Divisors ==
    divisors(buffer_dimensions, size, <<ownerArg[1], ownerArg[2]>>,
             <<ownerArg[3], ownerArg[4]>>)
\* The dimension the size policy derives from the native ratio is zero.
DerivedIsZero ==
    IF size = None THEN ret.val = <<0, 0>>
    ELSE /\ size[1][1] = "PxWidth" => ret.val[2] = 0
         /\ size[1][1] = "PxHeight" => ret.val[1] = 0
         /\ (size[1][1] = "FullSize" /\ Divisors # {}) => ret.val[2] = 0

\* C14 as stated: on an empty pixel buffer no division by a zero native
\* dimension is evaluated, and the result is (0, 0) or has a zero for the
\* derived dimension.
C14_DivisionsGuarded ==
    Unsized => (\A d \in Divisors : ~Eq(d, F32(0))) /\ DerivedIsZero

\* C14 amended: on an empty pixel buffer the divisions by zero are
\* evaluated (PxWidth and PxHeight always divide by the zero native
\* dimension), only NaN reaches the integer cast, and the result is (0, 0)
\* or has a zero for the derived dimension.
C14_ZeroDerivedDimension ==
    Unsized =>
        /\ DerivedIsZero
        /\ (size # None /\ size[1][1] # "FullSize") => F32(0) \in Divisors

\* A PxWidth target on an empty buffer, clamped: both divisions by zero.
C14_Witness ==
    /\ Unsized
    /\ size = Some(<<"PxWidth", MaxTarget, 0>>)
    /\ Divisors = {F32(0)}
    /\ MaxWidth = 4
    /\ ret.val = <<4, 0>>

\* ---------------------------------------------- claims on the renderer
\* C15: every entry of the index buffer is a valid index (0..3) into the
\* four-vertex buffer, and the entries form two triangles that together
\* cover the quad: both use three distinct corners and between them all four.
C15_IndicesInRange ==
    ret.op = "vertex_buf" =>
        /\ Len(INDICES) = 6
        /\ \A i \in 1..Len(INDICES) : INDICES[i] \in 0..(Len(ret.val) - 1)
        /\ Cardinality({INDICES[1], INDICES[2], INDICES[3]}) = 3
        /\ Cardinality({INDICES[4], INDICES[5], INDICES[6]}) = 3
        /\ {INDICES[i] : i \in 1..6} = 0..(Len(ret.val) - 1)

\* The corners handed to point by vertex_buf, in vertex order.
Corners == <<<<-1, 1>>, <<-1, -1>>, <<1, -1>>, <<1, 1>>>>
\* The arguments of the vertex_buf call whose result is in `ret`.
QuadPos == <<F32(ownerArg[1]), F32(ownerArg[2])>>
QuadScreen == <<F32(ownerArg[5]), F32(ownerArg[6])>>
\* Two points of three f32 coordinates are equal.
SamePoint(p, q) == \A i \in 1..3 : Eq(p[i], q[i])

\* C16: with position (0, 0) and size equal to the screen, every corner
\* (x, y) of the unit quad is mapped to (x, y, 0); and for every position
\* and size the top-left corner (-1, 1) is mapped to
\* (-1 + 2 * position.x / screen.width, 1 - 2 * position.y / screen.height, 0),
\* the expression being evaluated in f32.
C16_CornersAnchoredAtPosition ==
    ret.op = "vertex_buf" =>
        /\ (ownerArg[1] = 0 /\ ownerArg[2] = 0
              /\ ownerArg[3] = ownerArg[5] /\ ownerArg[4] = ownerArg[6]) =>
             \A i \in 1..4 :
                 SamePoint(ret.val[i].pos,
                           <<F32(Corners[i][1]), F32(Corners[i][2]), F32(0)>>)
        /\ SamePoint(ret.val[1].pos,
                     << Add(F32(-1), Div(Mul(F32(2), QuadPos[1]), QuadScreen[1])),
                        Sub(F32(1), Div(Mul(F32(2), QuadPos[2]), QuadScreen[2])),
                        F32(0) >>)

\* A quad of size (1, 2) at position (1, 2) on a 3x3 screen: the top-left
\* corner is at (-1 + 2/3, 1 - 4/3) as rounded by f32.
C16_Witness ==
    /\ ret.op = "vertex_buf"
    /\ ownerArg = <<1, 2, 1, 2, 3, 3>>
    /\ ret.val[1].pos[1] = Norm(-1, 5592405, -24)
    /\ ret.val[1].pos[2] = Norm(-1, 2796203, -23)

\* ------------------------------------------------- claims on the locking
\* A thread is blocked in lock() on a mutex the other thread holds.
TaskBlocked == taskPc = "lock_image" /\ imageLock = "owner"
OwnerBlocked ==
    \/ ownerPc \in {"create_bind_group_wait", "get_image_data_wait"}
         /\ imageLock = "task"
    \/ ownerPc = "add_callback_wait" /\ callbackLock = "task"

\* The scheduler runs a thread that can take a step, a blocked lock() call
\* gets the mutex if it is released again and again, and the owner releases
\* the pixel mutex it holds (create_bind_group finishes, the caller of
\* get_image_data drops the guard).
SpecFair ==
    /\ Spec
    /\ WF_vars(Task)
    /\ SF_vars(task_lock_image)
    /\ WF_vars(create_bind_group_upload \/ get_image_data_drop)

\* No thread holds the pixel mutex and the listener mutex at the same time,
\* the two threads are never both blocked, and a background thread that has
\* not ended can take a step unless it waits for the pixel mutex, which the
\* owner can then release.
C17_NoDeadlock ==
    /\ ~(imageLock = "task" /\ callbackLock = "task")
    /\ ~(imageLock = "owner" /\ callbackLock = "owner")
    /\ ~(TaskBlocked /\ OwnerBlocked)
    /\ ~TaskEnded =>
         \/ ENABLED Task
         \/ TaskBlocked /\ ENABLED (create_bind_group_upload \/ get_image_data_drop)

C18_NoFailureSurfaced == ownerPc # "panicked"
====
